---- MODULE Spec2Model ----
(***************************************************************************)
(* speech_to_text.py: the resumable transcription pipeline.                *)
(*                                                                         *)
(* The state is the file system's progress file, the local variables of    *)
(* process_audio and transcribe_chunk while a run is under way, and the    *)
(* recordings the runs are given.  A run is one call of txt_file on a      *)
(* path; runs follow each other (a later run starts once the previous one  *)
(* has returned, raised or been interrupted).                              *)
(***************************************************************************)
EXTENDS Integers, Sequences, FiniteSets, TLC

\* ------------------------------------------------------------------ bounds
\* Longest chunk list split_on_silence returns for a recording.
MaxChunks == 2
\* Number of runs (calls of txt_file) followed, one after the other.
MaxRuns == 3

\* --------------------------------------------------------------- constants
\* def transcribe_chunk(recognizer, audio_chunk, retries=3, delay=1)
Retries == 3
Delay == 1

\* The paths process_audio is called with.
Sources == {"a.mp3", "b.mp3"}

\* progress_file = "transcription_progress.json": one name for every source.
Absent == [kind |-> "absent"]
\* The file after open(progress_file, 'w') and before json.dump has written
\* the whole object: empty or a prefix of the JSON text; json.load raises.
Truncated == [kind |-> "truncated"]
\* A complete JSON object, as json.load gives it back (a dict).
Json(obj) == [kind |-> "json", obj |-> obj]
\* Valid JSON that is no object (a list, a number, null): json.load gives
\* back a value with no .get.
NotObject == [kind |-> "notobject"]
\* A JSON object for path p whose 'last_chunk' is no integer (a string, a
\* float, null); its other fields are as a checkpoint has them.
Mistyped(p, text) == [kind |-> "mistyped", obj |-> [file |-> p, text |-> text]]

\* ------------------------------------------------------------- characters
LowerCase == <<"h", "i", "o", "k">>
UpperCase == <<"H", "I", "O", "K">>

\* str.upper() / str.lower() on one character.
ToUpper(c) ==
    IF \E j \in 1..Len(LowerCase) : LowerCase[j] = c
    THEN UpperCase[CHOOSE j \in 1..Len(LowerCase) : LowerCase[j] = c]
    ELSE c

ToLower(c) ==
    IF \E j \in 1..Len(UpperCase) : UpperCase[j] = c
    THEN LowerCase[CHOOSE j \in 1..Len(UpperCase) : UpperCase[j] = c]
    ELSE c

\* str.capitalize(): first character upper-cased, all the others lower-cased.
Capitalize(text) ==
    [j \in 1..Len(text) |-> IF j = 1 THEN ToUpper(text[j]) ELSE ToLower(text[j])]

\* A faulty variant of Fragment: the text as the service returned it, no capitalize().
FragmentRaw(text) == text \o <<".", " ">>

\* return f"{text.capitalize()}. "
Fragment(text) == Capitalize(text) \o <<".", " ">>

\* "".join(whole_text)
RECURSIVE Join(_)
Join(texts) ==
    IF texts = <<>> THEN <<>> ELSE Head(texts) \o Join(Tail(texts))

\* return "No speech could be recognized in the audio file."  (one token
\* stands for the whole message; no fragment contains it)
Sentinel == <<"No speech could be recognized in the audio file.">>

\* process_audio has not returned (yet).
NoResult == <<"<no result>">>

\* ------------------------------------------------------------ the service
\* What recognize_google hears in chunk idx of the recording at path p: the
\* raw text it returns when it recognises the chunk.  Every chunk of every
\* recording says something different (one says nothing at all: "").
WordsA == << <<"h", "I">>, <<"o", "k">>, <<"K", "O">>, <<"i", "h", "O">> >>
WordsB == << <<"H", "o">>, <<>>, <<"k", "I", "k">>, <<"o", "H">> >>

Spoken(p, idx) ==
    IF p = "a.mp3" THEN WordsA[(idx % Len(WordsA)) + 1]
                   ELSE WordsB[(idx % Len(WordsB)) + 1]

\* The outcomes of one recognize_google call: the text, or one of the
\* exceptions transcribe_chunk tells apart (any other exception is
\* "Exception").
Finals == {"text", "UnknownValueError", "Exception"}

\* The service's responses for one chunk, fixed for the recording: the first
\* `fails` calls raise sr.RequestError, each later one ends in `final`.
\* fails = Retries is a chunk for which every call of a run raises
\* RequestError (its final is never seen).
Scripts ==
    {[fails |-> 0, final |-> f] : f \in Finals}
    \cup {[fails |-> 1, final |-> "text"],
          [fails |-> 2, final |-> "UnknownValueError"],
          [fails |-> Retries, final |-> "Exception"]}

\* Sequences over S of length at most n.
SeqUpTo(S, n) == UNION {[1..m -> S] : m \in 0..n}

\* The recordings a run may be given: every chunk list of a.mp3 up to
\* MaxChunks chunks with every script; b.mp3, the other recording, is one
\* whose chunks the service recognises at the first call.
Recordings(p) ==
    IF p = "a.mp3" THEN SeqUpTo(Scripts, MaxChunks)
                   ELSE SeqUpTo({[fails |-> 0, final |-> "text"]}, MaxChunks)

Response(script, n) ==
    IF n < script.fails THEN "RequestError" ELSE script.final

\* ------------------------------------------------------------------ state
VARIABLES
    audio,          \* path -> the recording's chunks, each with its Script
    runs,           \* number of runs started so far
    progress_file,  \* content of transcription_progress.json
    pc,             \* where the run is
    path,           \* process_audio's argument
    chunks,         \* len(chunks)
    start_index,
    i,              \* the loop index of "for i, chunk in enumerate(...)"
    whole_text,
    attempt,        \* transcribe_chunk: the loop variable
    delay,          \* transcribe_chunk: the current backoff delay
    result,         \* process_audio's return value
    \* history of the run, read by the properties only
    loaded,         \* the progress file as the run found it
    attempted,      \* the chunk indices the run has started, in order
    calls,          \* recognize_google calls made for the current chunk
    sleeps,         \* the delays slept for the current chunk, in order
    durable         \* the progress file as the last finished write left it

vars == <<audio, runs, progress_file, pc, path, chunks, start_index, i, whole_text,
          attempt, delay, result, loaded, attempted, calls, sleeps, durable>>

Running == {"load", "loop", "recognize", "sleep", "save", "dump", "cleanup"}
Stopped == {"idle", "returned", "raised", "interrupted"}

Init ==
    /\ audio \in {f \in [Sources -> SeqUpTo(Scripts, MaxChunks)] :
                     \A p \in Sources : f[p] \in Recordings(p)}
    /\ runs = 0
    /\ progress_file = Absent
    /\ pc = "idle"
    /\ path = "a.mp3"
    /\ chunks = 0
    /\ start_index = 0
    /\ i = 0
    /\ whole_text = <<>>
    /\ attempt = 0
    /\ delay = Delay
    /\ result = NoResult
    /\ loaded = Absent
    /\ attempted = <<>>
    /\ calls = 0
    /\ sleeps = <<>>
    /\ durable = Absent

\* ------------------------------------------------------------- operations
\* txt_file(path) -> process_audio(path), lines 65-84: decode, downmix,
\* split_on_silence; whole_text = []; start_index = 0.
StartRun(p) ==
    /\ pc \in Stopped
    /\ runs < MaxRuns
    /\ runs' = runs + 1
    /\ pc' = "load"
    /\ path' = p
    /\ chunks' = Len(audio[p])
    /\ start_index' = 0
    /\ i' = 0
    /\ whole_text' = <<>>
    /\ attempt' = 0
    /\ delay' = Delay
    /\ result' = NoResult
    /\ loaded' = Absent
    /\ attempted' = <<>>
    /\ calls' = 0
    /\ sleeps' = <<>>
    /\ UNCHANGED <<audio, progress_file, durable>>

\* A faulty variant of DecodeFails: the failed run removes the progress file.
DecodeFailsCleans(p) ==
    /\ pc \in Stopped
    /\ runs < MaxRuns
    /\ runs' = runs + 1
    /\ pc' = "raised"
    /\ path' = p
    /\ chunks' = 0
    /\ start_index' = 0
    /\ i' = 0
    /\ whole_text' = <<>>
    /\ attempt' = 0
    /\ delay' = Delay
    /\ result' = NoResult
    /\ loaded' = Absent
    /\ attempted' = <<>>
    /\ calls' = 0
    /\ sleeps' = <<>>
    /\ progress_file' = Absent
    /\ UNCHANGED <<audio, durable>>

\* Lines 67-80 raise (AudioSegment.from_mp3 or split_on_silence fails): the
\* handler of lines 144-146 prints and re-raises; txt_file prints the tips.
DecodeFails(p) ==
    /\ pc \in Stopped
    /\ runs < MaxRuns
    /\ runs' = runs + 1
    /\ pc' = "raised"
    /\ path' = p
    /\ chunks' = 0
    /\ start_index' = 0
    /\ i' = 0
    /\ whole_text' = <<>>
    /\ attempt' = 0
    /\ delay' = Delay
    /\ result' = NoResult
    /\ loaded' = Absent
    /\ attempted' = <<>>
    /\ calls' = 0
    /\ sleeps' = <<>>
    /\ UNCHANGED <<audio, progress_file, durable>>

\* dict.get(key, default)
Get(obj, key, default) == IF key \in DOMAIN obj THEN obj[key] ELSE default

\* A faulty variant of Matches: the checkpoint's source is not compared.
MatchesAny(obj, p) == TRUE

\* if progress.get('file') == path
Matches(obj, p) == Get(obj, "file", "None") = p

\* Lines 86-97: load the progress file if it exists.  json.load raising on a
\* truncated file is caught by "except Exception" (line 96): the run starts
\* from index 0 with an empty list, as it does when the file is absent or
\* names another path.
LoadProgress ==
    /\ pc = "load"
    /\ ~(progress_file.kind = "mistyped" /\ Matches(progress_file.obj, path))
    /\ loaded' = progress_file
    /\ IF progress_file.kind = "json" /\ Matches(progress_file.obj, path)
       THEN /\ start_index' = Get(progress_file.obj, "last_chunk", 0)
            /\ whole_text' = Get(progress_file.obj, "text", <<>>)
       ELSE UNCHANGED <<start_index, whole_text>>
    /\ i' = start_index'
    /\ pc' = "loop"
    /\ UNCHANGED <<audio, runs, progress_file, path, chunks, attempt, delay, result,
                   attempted, calls, sleeps, durable>>

\* Lines 86-101 on an object of the run's own path whose 'last_chunk' is no
\* integer: lines 93-94 assign start_index and whole_text, "start_index + 1"
\* in line 95 raises TypeError, caught by line 96; chunks[start_index:] in
\* line 101 raises TypeError outside the inner handlers, and lines 144-146
\* re-raise it.  (start_index holds the non-integer; the model leaves it.)
LoadProgressRaises ==
    /\ pc = "load"
    /\ progress_file.kind = "mistyped"
    /\ Matches(progress_file.obj, path)
    /\ loaded' = progress_file
    /\ whole_text' = Get(progress_file.obj, "text", <<>>)
    /\ pc' = "raised"
    /\ UNCHANGED <<audio, runs, progress_file, path, chunks, start_index, i,
                   attempt, delay, result, attempted, calls, sleeps, durable>>

\* Line 101, one more element of chunks[start_index:]: export the chunk,
\* record it and enter transcribe_chunk (lines 102-114, 47-49).
BeginChunk ==
    /\ pc = "loop"
    /\ i < chunks
    /\ attempted' = Append(attempted, i)
    /\ attempt' = 0
    /\ delay' = Delay
    /\ calls' = 0
    /\ sleeps' = <<>>
    /\ pc' = "recognize"
    /\ UNCHANGED <<audio, runs, progress_file, path, chunks, start_index, i,
                   whole_text, result, loaded, durable>>

\* A faulty variant of EndLoop: an empty chunk list is treated as an error.
EndLoopEmptyFails ==
    /\ pc = "loop"
    /\ i >= chunks
    /\ pc' = IF chunks = 0 THEN "raised" ELSE "cleanup"
    /\ UNCHANGED <<audio, runs, progress_file, path, chunks, start_index, i,
                   whole_text, attempt, delay, result, loaded, attempted,
                   calls, sleeps, durable>>

\* Line 101, the slice is exhausted: leave the loop.
EndLoop ==
    /\ pc = "loop"
    /\ i >= chunks
    /\ pc' = "cleanup"
    /\ UNCHANGED <<audio, runs, progress_file, path, chunks, start_index, i,
                   whole_text, attempt, delay, result, loaded, attempted,
                   calls, sleeps, durable>>

\* The response of the recognize_google call that is about to be made.
Heard == Response(audio[path][i + 1], calls)

\* Lines 51-52 and 115-117: the call returns text; "if text:" holds for
\* every fragment, which ends in ". ".
RecognizeText ==
    /\ pc = "recognize"
    /\ Heard = "text"
    /\ calls' = calls + 1
    /\ whole_text' = IF Fragment(Spoken(path, i)) # <<>>
                     THEN Append(whole_text, Fragment(Spoken(path, i)))
                     ELSE whole_text
    /\ pc' = "save"
    /\ UNCHANGED <<audio, runs, progress_file, path, chunks, start_index, i, attempt,
                   delay, result, loaded, attempted, sleeps, durable>>

\* Lines 53-54 and 118-119: sr.UnknownValueError, transcribe_chunk returns
\* None and nothing is appended.
RecognizeUnknown ==
    /\ pc = "recognize"
    /\ Heard = "UnknownValueError"
    /\ calls' = calls + 1
    /\ pc' = "save"
    /\ UNCHANGED <<audio, runs, progress_file, path, chunks, start_index, i,
                   whole_text, attempt, delay, result, loaded, attempted,
                   sleeps, durable>>

\* A faulty variant of ShouldRetry: the last attempt is slept after as well.
ShouldRetryAlways(n) == n < Retries

\* if attempt < retries - 1
ShouldRetry(n) == n < Retries - 1

\* Lines 55-58: sr.RequestError on an attempt that is not the last.
RecognizeRetry ==
    /\ pc = "recognize"
    /\ Heard = "RequestError"
    /\ ShouldRetry(attempt)
    /\ calls' = calls + 1
    /\ pc' = "sleep"
    /\ UNCHANGED <<audio, runs, progress_file, path, chunks, start_index, i,
                   whole_text, attempt, delay, result, loaded, attempted,
                   sleeps, durable>>

\* A faulty variant of NextDelay: the delay is not doubled.
NextDelayFlat(d) == d

\* delay *= 2
NextDelay(d) == d * 2

\* Lines 58-59 and the next turn of "for attempt in range(retries)"; when
\* range(retries) is exhausted the function falls off its end and returns
\* None.
Sleep ==
    /\ pc = "sleep"
    /\ sleeps' = Append(sleeps, delay)
    /\ delay' = NextDelay(delay)
    /\ attempt' = attempt + 1
    /\ pc' = IF attempt + 1 < Retries THEN "recognize" ELSE "save"
    /\ UNCHANGED <<audio, runs, progress_file, path, chunks, start_index, i,
                   whole_text, result, loaded, attempted, calls, durable>>

\* A faulty variant of RecognizeExhausted: the exception leaves process_audio.
RecognizeExhaustedAborts ==
    /\ pc = "recognize"
    /\ Heard = "RequestError"
    /\ ~ShouldRetry(attempt)
    /\ calls' = calls + 1
    /\ pc' = "raised"
    /\ UNCHANGED <<audio, runs, progress_file, path, chunks, start_index, i,
                   whole_text, attempt, delay, result, loaded, attempted,
                   sleeps, durable>>

\* A faulty variant of RecognizeExhausted: the failed chunk is checkpointed.
RecognizeExhaustedSaves ==
    /\ pc = "recognize"
    /\ Heard = "RequestError"
    /\ ~ShouldRetry(attempt)
    /\ calls' = calls + 1
    /\ i' = i + 1
    /\ pc' = "loop"
    /\ progress_file' = Json([file |-> path, last_chunk |-> i, text |-> whole_text])
    /\ UNCHANGED <<audio, runs, path, chunks, start_index,
                   whole_text, attempt, delay, result, loaded, attempted,
                   sleeps, durable>>

\* Lines 60-61 and 130-133: sr.RequestError on the last attempt is raised
\* again; process_audio's "except Exception" prints and continues with the
\* next chunk (the progress file is not written).
RecognizeExhausted ==
    /\ pc = "recognize"
    /\ Heard = "RequestError"
    /\ ~ShouldRetry(attempt)
    /\ calls' = calls + 1
    /\ i' = i + 1
    /\ pc' = "loop"
    /\ UNCHANGED <<audio, runs, progress_file, path, chunks, start_index,
                   whole_text, attempt, delay, result, loaded, attempted,
                   sleeps, durable>>

\* A faulty variant of RecognizeFatal: any exception is handled like RequestError.
RecognizeFatalRetried ==
    /\ pc = "recognize"
    /\ Heard = "Exception"
    /\ calls' = calls + 1
    /\ IF ShouldRetry(attempt)
       THEN pc' = "sleep" /\ i' = i
       ELSE pc' = "loop" /\ i' = i + 1
    /\ UNCHANGED <<audio, runs, progress_file, path, chunks, start_index,
                   whole_text, attempt, delay, result, loaded, attempted,
                   sleeps, durable>>

\* Lines 130-133: any other exception of the call is caught by no clause of
\* transcribe_chunk; process_audio's "except Exception" prints and continues
\* with the next chunk (the progress file is not written).
RecognizeFatal ==
    /\ pc = "recognize"
    /\ Heard = "Exception"
    /\ calls' = calls + 1
    /\ i' = i + 1
    /\ pc' = "loop"
    /\ UNCHANGED <<audio, runs, progress_file, path, chunks, start_index,
                   whole_text, attempt, delay, result, loaded, attempted,
                   sleeps, durable>>

\* progress = {'file': path, 'last_chunk': i, 'text': whole_text}
Checkpoint(p, last, text) ==
    Json([file |-> p, last_chunk |-> last, text |-> text])

\* Line 127: open(progress_file, 'w') truncates the file.
SaveOpen ==
    /\ pc = "save"
    /\ progress_file' = Truncated
    /\ pc' = "dump"
    /\ UNCHANGED <<audio, runs, path, chunks, start_index, i, whole_text, attempt,
                   delay, result, loaded, attempted, calls, sleeps, durable>>

\* Line 127 raises OSError (the file cannot be opened for writing): caught
\* by line 130, the run continues with the next chunk.
SaveOpenFails ==
    /\ pc = "save"
    /\ i' = i + 1
    /\ pc' = "loop"
    /\ UNCHANGED <<audio, runs, progress_file, path, chunks, start_index,
                   whole_text, attempt, delay, result, loaded, attempted,
                   calls, sleeps, durable>>

\* A faulty variant of SaveDump: the chunk after the saved one is passed over.
SaveDumpSkips ==
    /\ pc = "dump"
    /\ progress_file' = Checkpoint(path, i, whole_text)
    /\ durable' = progress_file'
    /\ i' = i + 2
    /\ pc' = "loop"
    /\ UNCHANGED <<audio, runs, path, chunks, start_index, whole_text, attempt,
                   delay, result, loaded, attempted, calls, sleeps>>

\* Line 128: json.dump writes the whole object, the file is closed; end of
\* the loop body.
SaveDump ==
    /\ pc = "dump"
    /\ progress_file' = Checkpoint(path, i, whole_text)
    /\ durable' = progress_file'
    /\ i' = i + 1
    /\ pc' = "loop"
    /\ UNCHANGED <<audio, runs, path, chunks, start_index, whole_text, attempt,
                   delay, result, loaded, attempted, calls, sleeps>>

\* Line 128 raises OSError while writing (the disk is full): the file keeps
\* what was written; caught by line 130, the run continues.
SaveDumpFails ==
    /\ pc = "dump"
    /\ i' = i + 1
    /\ pc' = "loop"
    /\ UNCHANGED <<audio, runs, progress_file, path, chunks, start_index,
                   whole_text, attempt, delay, result, loaded, attempted,
                   calls, sleeps, durable>>

\* A faulty variant of Cleanup: the progress file is not removed.
CleanupKeeps ==
    /\ pc = "cleanup"
    /\ result' = IF whole_text = <<>> THEN Sentinel ELSE Join(whole_text)
    /\ pc' = "returned"
    /\ UNCHANGED <<audio, runs, progress_file, path, chunks, start_index, i,
                   whole_text, attempt, delay, loaded, attempted, calls,
                   sleeps, durable>>

\* A faulty variant of Cleanup: the joined text is returned even when it is
\* empty.
CleanupNoSentinel ==
    /\ pc = "cleanup"
    /\ progress_file' = Absent
    /\ durable' = Absent
    /\ result' = Join(whole_text)
    /\ pc' = "returned"
    /\ UNCHANGED <<audio, runs, path, chunks, start_index, i, whole_text, attempt,
                   delay, loaded, attempted, calls, sleeps>>

\* A faulty variant of Cleanup: only a checkpoint of the run's own path is
\* removed.
CleanupOwnOnly ==
    /\ pc = "cleanup"
    /\ progress_file' = IF progress_file.kind = "json"
                             /\ progress_file.obj.file # path
                         THEN progress_file ELSE Absent
    /\ durable' = progress_file'
    /\ result' = IF whole_text = <<>> THEN Sentinel ELSE Join(whole_text)
    /\ pc' = "returned"
    /\ UNCHANGED <<audio, runs, path, chunks, start_index, i, whole_text, attempt,
                   delay, loaded, attempted, calls, sleeps>>

\* Lines 135-142: remove the progress file if it exists, return the
\* sentinel or the joined text.
Cleanup ==
    /\ pc = "cleanup"
    /\ progress_file' = Absent
    /\ durable' = Absent
    /\ result' = IF whole_text = <<>> THEN Sentinel ELSE Join(whole_text)
    /\ pc' = "returned"
    /\ UNCHANGED <<audio, runs, path, chunks, start_index, i, whole_text, attempt,
                   delay, loaded, attempted, calls, sleeps>>

\* Lines 188-190: KeyboardInterrupt (or the process is killed) anywhere in
\* the run.  It is no Exception: the handlers of lines 96, 130 and 144 do
\* not catch it, and the file on disk stays as the run left it.
Interrupt ==
    /\ pc \in Running
    /\ pc' = "interrupted"
    /\ UNCHANGED <<audio, runs, progress_file, path, chunks, start_index, i,
                   whole_text, attempt, delay, result, loaded, attempted,
                   calls, sleeps, durable>>

Next ==
    \/ \E p \in Sources : StartRun(p)
    \/ \E p \in Sources : DecodeFails(p)
    \/ LoadProgress
    \/ BeginChunk
    \/ EndLoop
    \/ RecognizeText
    \/ RecognizeUnknown
    \/ RecognizeRetry
    \/ Sleep
    \/ RecognizeExhausted
    \/ RecognizeFatal
    \/ SaveOpen
    \/ SaveOpenFails
    \/ SaveDump
    \/ SaveDumpFails
    \/ Cleanup
    \/ Interrupt

Spec == Init /\ [][Next]_vars

\* Between two runs the progress file is damaged or edited by something
\* other than this program: it becomes invalid JSON, JSON that is no
\* object, or an object whose 'last_chunk' is no integer.
CorruptFile ==
    /\ pc \in Stopped
    /\ progress_file.kind = "json"
    /\ progress_file' \in {Truncated, NotObject,
                           Mistyped(progress_file.obj.file,
                                    progress_file.obj.text)}
    /\ UNCHANGED <<audio, runs, pc, path, chunks, start_index, i, whole_text,
                   attempt, delay, result, loaded, attempted, calls, sleeps,
                   durable>>

\* The program with a progress file that may be damaged between runs.
TamperNext ==
    \/ Next
    \/ CorruptFile
    \/ LoadProgressRaises

TamperSpec == Init /\ [][TamperNext]_vars

\* The steps of the run under way (every step but the start of a run and
\* the interrupt).
RunStep ==
    \/ LoadProgress
    \/ BeginChunk
    \/ EndLoop
    \/ RecognizeText
    \/ RecognizeUnknown
    \/ RecognizeRetry
    \/ Sleep
    \/ RecognizeExhausted
    \/ RecognizeFatal
    \/ SaveOpen
    \/ SaveOpenFails
    \/ SaveDump
    \/ SaveDumpFails
    \/ Cleanup

\* ------------------------------------------------------------- properties
\* The run found a checkpoint of the path it is processing.
FoundOwn == loaded.kind = "json" /\ loaded.obj.file = path
\* The run found a checkpoint of another path.
FoundStale == loaded.kind = "json" /\ loaded.obj.file # path

\* The chunk the run started last, and whether its attempt is over.
LastChunk == attempted[Len(attempted)]
ChunkDone == attempted # <<>> /\ i = LastChunk + 1
LastScript == audio[path][LastChunk + 1]

\* Sentence case, a full stop and one space, as the specification words it.
Normalized(t) ==
    [j \in 1..(Len(t) + 2) |->
        IF j = Len(t) + 1 THEN "."
        ELSE IF j = Len(t) + 2 THEN " "
        ELSE IF j = 1 THEN ToUpper(t[j]) ELSE ToLower(t[j])]

\* The chunk ends transcribed / unintelligible / failed in a run that makes
\* up to Retries calls for it.
EndsTranscribed(sc) == sc.fails < Retries /\ sc.final = "text"
EndsFailed(sc) == sc.fails >= Retries \/ sc.final = "Exception"

\* The normalized fragments of the transcribed chunks c..Len(audio[p])-1 of
\* the recording at p, in chunk order.
RECURSIVE FragmentsFrom(_, _)
FragmentsFrom(p, c) ==
    IF c >= Len(audio[p]) THEN <<>>
    ELSE (IF EndsTranscribed(audio[p][c + 1])
          THEN <<Normalized(Spoken(p, c))>> ELSE <<>>)
         \o FragmentsFrom(p, c + 1)

\* What a run on p returns that starts with no progress file and is not
\* interrupted.
FromScratch(p) ==
    IF FragmentsFrom(p, 0) = <<>> THEN Sentinel ELSE Join(FragmentsFrom(p, 0))

\* C1: a run that finds a checkpoint of its own path with last_chunk = k
\* transcribes chunk k+1 first, and starts from the checkpoint's text list.
C1_ResumeAtNextChunk ==
    FoundOwn =>
        /\ attempted # <<>> => attempted[1] = loaded.obj.last_chunk + 1
        /\ (pc = "loop" /\ attempted = <<>>) => whole_text = loaded.obj.text

\* C2: a run that resumes from a checkpoint of its own path returns the
\* transcript of the uninterrupted run from scratch.
C2_ResumeIdempotent ==
    (pc = "returned" /\ FoundOwn) => result = FromScratch(path)

\* C3: when the attempt of chunk i is over, whatever its outcome, the
\* progress file holds last_chunk = i and the current accumulator before the
\* next chunk is started.
C3_CheckpointAfterEveryAttempt ==
    (pc = "loop" /\ ChunkDone) =>
        progress_file = Checkpoint(path, LastChunk, whole_text)

\* C4: after an interrupt the progress file is the complete checkpoint the
\* last finished save wrote, never a truncated one.
C4_InterruptKeepsCheckpoint ==
    pc = "interrupted" =>
        progress_file.kind # "truncated" /\ progress_file = durable

\* The elements of a sequence.
Range(seq) == {seq[j] : j \in 1..Len(seq)}

\* C5: a run that finds a checkpoint of another path starts at chunk 0 with
\* an empty accumulator, none of the checkpoint's fragments enters its
\* accumulator, and it returns what a run with no progress file returns.
C5_StaleCheckpointIgnored ==
    FoundStale =>
        /\ start_index = 0
        /\ attempted # <<>> => attempted[1] = 0
        /\ (pc = "loop" /\ attempted = <<>>) => whole_text = <<>>
        /\ Range(whole_text) \cap Range(loaded.obj.text) = {}
        /\ pc = "returned" => result = FromScratch(path)

\* A run on one path has returned its own transcript although it found the
\* fragments of another path in the progress file.
C5_Witness ==
    /\ pc = "returned"
    /\ FoundStale
    /\ loaded.obj.text # <<>>
    /\ loaded.obj.last_chunk > 0
    /\ result # Sentinel

\* The delays of n consecutive retries: Delay, 2 Delay, 4 Delay, ...
Doubling(n) == [j \in 1..n |-> Delay * 2 ^ (j - 1)]

\* C6: a chunk whose every call raises RequestError gets exactly Retries
\* calls with the delays Delay, 2 Delay, ... between them, contributes no
\* fragment and no checkpoint, and the run goes on with the next chunk.
C6_RetryBound ==
    (attempted # <<>> /\ LastScript.fails >= Retries) =>
        /\ calls <= Retries
        /\ ~ChunkDone => pc \in {"recognize", "sleep", "interrupted"}
        /\ pc = "recognize" => sleeps = Doubling(calls)
        /\ ChunkDone =>
              /\ calls = Retries
              /\ sleeps = Doubling(Retries - 1)
              /\ pc \in {"loop", "cleanup", "returned", "interrupted"}
              /\ Normalized(Spoken(path, LastChunk)) \notin Range(whole_text)

\* The run is about to go on after a chunk whose calls all failed.
C6_Witness ==
    /\ pc = "loop"
    /\ ChunkDone
    /\ LastScript.fails >= Retries
    /\ calls = Retries
    /\ i < chunks

\* C7: once a call for a chunk has ended unintelligible or in an exception
\* other than RequestError, no further call is made for the chunk and
\* nothing is slept: the calls stop at the first such outcome.
C7_OnlyTransientRetried ==
    (attempted # <<>> /\ LastScript.fails < Retries
       /\ LastScript.final \in {"UnknownValueError", "Exception"}) =>
        /\ calls <= LastScript.fails + 1
        /\ Len(sleeps) <= LastScript.fails
        /\ calls = LastScript.fails + 1 => pc \notin {"recognize", "sleep"}

\* A chunk was given up at its first call, which raised an exception that
\* is no RequestError.
C7_Witness ==
    /\ ChunkDone
    /\ LastScript.final = "Exception"
    /\ LastScript.fails = 0
    /\ calls = 1
    /\ sleeps = <<>>

\* The step ends the attempt of the current chunk in a failure of its
\* transcription.
ChunkFails ==
    /\ pc = "recognize"
    /\ pc' \notin {"recognize", "sleep", "save", "interrupted"}

\* The chunks the run has still to begin.
Left(x) == IF x < chunks THEN chunks - x ELSE 0

\* An upper bound of the steps one chunk takes: its begin, Retries calls,
\* the sleeps between and after them, the two steps of the save.
ChunkSteps == 2 * Retries + 3

\* An upper bound of the steps the run under way has still to take.
StepsLeft ==
    CASE pc = "load" -> Left(0) * ChunkSteps + 2
      [] pc = "loop" -> Left(i) * ChunkSteps + 1
      [] pc = "recognize" ->
            (Left(i) - 1) * ChunkSteps + 1 + 2 * (Retries - attempt) + 2
      [] pc = "sleep" ->
            (Left(i) - 1) * ChunkSteps + 1 + 2 * (Retries - attempt) + 1
      [] pc = "save" -> (Left(i) - 1) * ChunkSteps + 1 + 2
      [] pc = "dump" -> (Left(i) - 1) * ChunkSteps + 1 + 1
      [] OTHER -> 0

\* C8: once segmentation has succeeded nothing a chunk's transcription does
\* aborts the run: a failed chunk is followed by the next index, the chunks
\* from the start index on are attempted one after the other up to the last
\* one, and the run returns a result: while it is under way it always has a
\* next step, and each step brings the return nearer.
C8_ChunkFailureTolerated ==
    /\ [](pc = "raised" => attempted = <<>>)
    /\ [](attempted = [j \in 1..Len(attempted) |-> start_index + j - 1])
    /\ [](pc = "returned" =>
             result # NoResult /\ start_index + Len(attempted) >= chunks)
    /\ [][ChunkFails => pc' = "loop" /\ i' = i + 1]_vars
    /\ [](pc \in Running => StepsLeft >= 0 /\ ENABLED RunStep)
    /\ [][(pc \in Running /\ pc' \in Running) => StepsLeft' < StepsLeft]_vars

\* The run has returned a transcript although its first chunk failed.
C8_Witness ==
    /\ pc = "returned"
    /\ Len(attempted) = 2
    /\ EndsFailed(audio[path][attempted[1] + 1])
    /\ result # Sentinel

\* C9: when the checkpoint of a chunk could not be written the run does not
\* carry on: a run that is at the next chunk after a chunk whose
\* transcription did not fail has that chunk's checkpoint in the file.
C9_WriteFailureSurfaces ==
    (pc \in {"loop", "cleanup"} /\ ChunkDone /\ ~EndsFailed(LastScript)) =>
        progress_file = Checkpoint(path, LastChunk, whole_text)

\* The run found no checkpoint of its own path.
StartsFromScratch == loaded.kind # "json" \/ loaded.obj.file # path

\* No chunk of the recording ends failed.
NoFailures(p) == \A c \in 1..Len(audio[p]) : ~EndsFailed(audio[p][c])

\* C10 as stated: a from-scratch run with no failures returns the
\* concatenation, in chunk order, of the normalized fragments of the
\* transcribed chunks.
C10_AlwaysConcatenation ==
    (pc = "returned" /\ StartsFromScratch /\ NoFailures(path)) =>
        result = Join(FragmentsFrom(path, 0))

\* C10, amended: a from-scratch run with no failures returns the
\* concatenation, in chunk order, of the normalized fragments of the
\* transcribed chunks when at least one chunk is transcribed, and the
\* sentinel when none is; its accumulator holds those fragments in order.
C10_TranscriptAssembly ==
    (pc = "returned" /\ StartsFromScratch /\ NoFailures(path)) =>
        /\ whole_text = FragmentsFrom(path, 0)
        /\ result = IF FragmentsFrom(path, 0) = <<>>
                    THEN Sentinel
                    ELSE Join(FragmentsFrom(path, 0))

\* A from-scratch run with no failures has returned the fragment of one
\* chunk and skipped an unintelligible one.
C10_Witness ==
    /\ pc = "returned"
    /\ StartsFromScratch
    /\ NoFailures(path)
    /\ Len(whole_text) = 1
    /\ Len(attempted) = 2
    /\ result = Normalized(Spoken(path, 1))

\* C11: whenever process_audio has returned, no progress file exists: the
\* step that returns the text is the one that has removed the file.
C11_NoCheckpointAfterReturn ==
    /\ [](pc = "returned" => progress_file = Absent /\ result # NoResult)
    /\ [][pc' = "returned" =>
              pc \in {"cleanup", "returned"} /\ progress_file' = Absent]_vars

\* A run has returned a transcript after it wrote the checkpoint of its last
\* chunk, and the file it found at its start is gone too.
C11_Witness ==
    /\ pc = "returned"
    /\ loaded.kind = "json"
    /\ ChunkDone
    /\ EndsTranscribed(LastScript)
    /\ progress_file = Absent

\* The run found a progress file that is no checkpoint: invalid JSON, no
\* object, or an object with a field of the wrong type.
FoundCorrupt == loaded.kind \in {"truncated", "notobject", "mistyped"}

\* C12: a run that finds a corrupt progress file behaves as one that finds
\* none: it does not fail, and it starts at chunk 0 with an empty
\* accumulator.
C12_CorruptCheckpointIgnored ==
    FoundCorrupt =>
        /\ pc # "raised"
        /\ start_index = 0
        /\ attempted # <<>> => attempted[1] = 0
        /\ (pc = "loop" /\ attempted = <<>>) => whole_text = <<>>

\* A run is under way, or has ended, on a recording split into no chunk.
ZeroChunkRun == pc \in Running \cup {"returned", "interrupted"} /\ chunks = 0

\* C13: a run on a recording with zero chunks makes no recognition call and
\* writes no checkpoint (the only change it makes to the progress file is
\* the removal at its end), it does not fail, and it returns the sentinel.
C13_ZeroChunks ==
    /\ [](ZeroChunkRun =>
             /\ attempted = <<>>
             /\ calls = 0
             /\ pc \notin {"recognize", "sleep", "save", "dump"}
             /\ pc \in {"loop", "cleanup"} => progress_file = loaded
             /\ pc = "returned" => result = Sentinel
             /\ pc \in Running => ENABLED RunStep)
    /\ [][(pc \in Running /\ chunks = 0) =>
              /\ pc' # "raised"
              /\ progress_file' # progress_file =>
                    pc = "cleanup" /\ progress_file' = Absent]_vars

\* A run on a recording with zero chunks has returned the sentinel.
C13_Witness ==
    /\ pc = "returned"
    /\ chunks = 0
    /\ attempted = <<>>
    /\ result = Sentinel

\* No chunk of the recording at p ends transcribed.
NoneTranscribed(p) ==
    \A c \in 1..Len(audio[p]) : ~EndsTranscribed(audio[p][c])

\* C14: a run whose chunks all end unintelligible or failed still goes on to
\* its return and returns the sentinel; a run returns the sentinel exactly
\* when its accumulator is empty at the return, and the concatenation of
\* the accumulator otherwise.
C14_SentinelIffEmpty ==
    /\ (pc \in Running /\ NoneTranscribed(path)) => ENABLED RunStep
    /\ (pc = "raised" /\ NoneTranscribed(path)) => attempted = <<>>
    /\ pc = "returned" =>
          /\ result = Sentinel <=> whole_text = <<>>
          /\ whole_text # <<>> => result = Join(whole_text)
          /\ NoneTranscribed(path) => result = Sentinel

\* A run of two chunks, the first failed and the second unintelligible, has
\* returned the sentinel.
C14_Witness ==
    /\ pc = "returned"
    /\ attempted = <<0, 1>>
    /\ EndsFailed(audio[path][1])
    /\ audio[path][2].final = "UnknownValueError"
    /\ result = Sentinel

\* C15: a run whose decoding or segmentation fails raises before any chunk:
\* no chunk is attempted, the service is never called, nothing is returned,
\* and the step that raises leaves the progress file as it was, neither
\* written nor deleted.
C15_DecodeFailureAborts ==
    /\ [](pc = "raised" =>
             /\ attempted = <<>>
             /\ calls = 0
             /\ sleeps = <<>>
             /\ result = NoResult)
    /\ [][pc' = "raised" /\ runs' # runs =>
              /\ pc \in Stopped
              /\ progress_file' = progress_file]_vars

\* A run has raised on its decoding while an earlier run's checkpoint is in
\* the progress file.
C15_Witness == pc = "raised" /\ runs > 1 /\ progress_file.kind = "json"

\* The sequences of k chunk indices below n in strictly increasing order.
Increasing(k, n) ==
    {f \in [1..k -> 0..(n - 1)] : \A j \in 1..(k - 1) : f[j] < f[j + 1]}

\* C16: a checkpoint in the progress file with last_chunk = k holds
\* fragments of chunks 0..k of its source only, in chunk order and at most
\* one per chunk, so its text list has at most k + 1 entries.
C16_CheckpointConsistent ==
    progress_file.kind = "json" =>
        LET k == progress_file.obj.last_chunk
            text == progress_file.obj.text
        IN /\ Len(text) <= k + 1
           /\ \E f \in Increasing(Len(text), k + 1) :
                 \A j \in 1..Len(text) :
                    text[j] = Fragment(Spoken(progress_file.obj.file, f[j]))

\* The integers from a up to b - 1.
Indices(a, b) == {n \in 0..MaxChunks : a <= n /\ n < b}

\* C17: within a run the chunks are started in strictly increasing index
\* order, first the resume index and then each next index; a run that has
\* returned has started each index from the resume index to N-1 exactly
\* once; while a chunk's calls, sleeps or save are under way it is the chunk
\* started last, and a chunk is started only from the head of the loop,
\* after the attempt of the chunk before it is over.
C17_ChunksInOrder ==
    /\ [](\A j \in 1..Len(attempted) :
             /\ j = 1 => attempted[j] = start_index
             /\ j > 1 => attempted[j] = attempted[j - 1] + 1
             /\ attempted[j] < chunks)
    /\ [](pc = "returned" =>
             /\ Range(attempted) = Indices(start_index, chunks)
             /\ Len(attempted) = Cardinality(Indices(start_index, chunks)))
    /\ [](pc \in {"recognize", "sleep", "save", "dump"} =>
             attempted # <<>> /\ i = LastChunk)
    /\ [][(pc \in Running /\ attempted' # attempted) =>
              /\ pc = "loop"
              /\ attempted # <<>> => ChunkDone
              /\ attempted' = Append(attempted, i)
              /\ pc' = "recognize"]_vars

\* A run has returned after two chunks, the first of which was retried and
\* slept for before the second was started.
C17_Witness ==
    /\ pc = "returned"
    /\ attempted = <<0, 1>>
    /\ audio[path][1].fails > 0

C19_SharedProgressFile ==
    (FoundStale /\ pc \in Running \cup {"returned"}) =>
        /\ progress_file.kind = "json" =>
              \/ progress_file = loaded /\ durable = loaded
              \/ progress_file.obj.file = path /\ durable = progress_file
        /\ pc = "returned" => progress_file = Absent /\ progress_file # loaded

\* A run on a recording of no chunks has returned and removed the
\* checkpoint of another path that it found.
C19_Witness ==
    /\ pc = "returned"
    /\ FoundStale
    /\ chunks = 0
    /\ progress_file = Absent

\* C20: every run ends: while it is under way it can always take a step,
\* each step lowers a bound of the steps it has left, and its own steps end
\* it in its return only (it raises only at its start, on the decoding).
\* For each chunk at most Retries calls are made and at most Retries - 1
\* delays slept; every sleep lies between two calls, none after the last.
C20_Termination ==
    /\ [](calls <= Retries /\ Len(sleeps) <= Retries - 1)
    /\ [](pc = "recognize" => calls < Retries /\ Len(sleeps) = calls)
    /\ [](pc = "sleep" => calls < Retries /\ Len(sleeps) = calls - 1)
    /\ []((pc \in {"save", "dump", "loop", "cleanup", "returned"}
             /\ attempted # <<>>) => Len(sleeps) = calls - 1)
    /\ [](pc \in Running => StepsLeft >= 0 /\ ENABLED RunStep)
    /\ [][(pc \in Running /\ pc' \in Running) => StepsLeft' < StepsLeft]_vars
    /\ [][(pc \in Running /\ pc' \in Stopped) =>
              pc' \in {"returned", "interrupted"}]_vars
    /\ [][(pc \in Stopped /\ pc' # pc) => pc' \in {"load", "raised"}]_vars

\* A run has returned whose last chunk took all its calls, with a sleep
\* between them and none after the last.
C20_Witness ==
    /\ pc = "returned"
    /\ attempted # <<>>
    /\ calls = Retries
    /\ Len(sleeps) = Retries - 1

====
